---- MODULE Spec2Model ----
(***************************************************************************)
(* A model of the SSO authentication service                               *)
(* (internal/services/auth/auth.go, internal/lib/jwt).                     *)
(*                                                                         *)
(* Every inbound call (Login, RegisterNewUser, IsAdmin, IsUserExists) runs *)
(* in a request slot and advances one library/store call at a time, so     *)
(* that calls interleave as goroutines of the gRPC server do.  The User    *)
(* Store and the Application Store are not part of the service: they are   *)
(* modelled by their contract.                                             *)
(***************************************************************************)
EXTENDS Integers, Sequences, FiniteSets, TLC

\* ---------------------------------------------------------------- bounds
MaxReqs == 2        \* request slots served concurrently
MaxTime == 1        \* the clock is read in 0..MaxTime ticks
MaxTTL == 1         \* the token TTL is chosen in 1..MaxTTL ticks
MaxSalt == 1        \* bcrypt salts are drawn from 1..MaxSalt

\* time.Time.Unix() truncates to whole seconds: the clock ticks in half seconds
TicksPerSec == 2

Reqs == 1..MaxReqs
Emails == {"a@x.com", "b@x.com"}
Passwords == {"pw1", "wrong"}
KnownApps == {[id |-> 1, secret |-> "s1"], [id |-> 2, secret |-> "s2"]}
AppIDs == {1, 2, 3}
UserIDs == 1..Cardinality(Emails)
Salts == 1..MaxSalt

\* ------------------------------------------------------- values and errors
Nil == "nil"
StorageErrUserNotFound == "storage.ErrUserNotFound"
StorageErrUserExists == "storage.ErrUserExists"
StorageErrAppNotFound == "storage.ErrAppNotFound"
StorageInternal == "storage.internal"
CtxCanceled == "context.Canceled"
BcryptMismatch == "bcrypt.ErrMismatchedHashAndPassword"
BcryptError == "bcrypt.error"
JwtError == "jwt.error"

ErrInvalidCredentials == "invalid credentials"
ErrInvalidAppID == "invalid app id"
ErrUserExists == "user already exists"
ErrUserNotFound == "user not found"

\* fmt.Errorf("%s: %w", op, err)
Wrap(op, err) == [op |-> op, err |-> err]
NoErr == [op |-> "", err |-> Nil]

NoUser == [id |-> 0, email |-> "", passHash |-> <<>>]
NoApp == [id |-> 0, secret |-> ""]
EmptyToken == <<>>

VARIABLES
    req,         \* request slot -> the call running in it (arguments, locals, result)
    users,       \* User Store: the set of user records
    nextId,      \* User Store: the id the next created user gets
    now,         \* the clock: the latest time read, in ticks
    tokenTTL,    \* AuthService.tokenTTL
    registered   \* history: (email, password, id) of every successful RegisterNewUser

vars == <<req, users, nextId, now, tokenTTL, registered>>

Idle ==
    [op |-> "none", pc |-> "idle", email |-> "", password |-> "", appID |-> 0,
     userID |-> 0, ctx |-> "live", user |-> NoUser, app |-> NoApp,
     passHash |-> <<>>, token |-> EmptyToken, uid |-> 0, flag |-> FALSE,
     err |-> NoErr, log |-> <<>>, calls |-> <<>>, issuedAt |-> 0,
     storeFlag |-> FALSE]

LogRec(level, msg, hasErr) == [level |-> level, msg |-> msg, error |-> hasErr]
Call(fn, err) == [fn |-> fn, err |-> err]

\* ------------------------------------------------------------- libraries
\* bcrypt.GenerateFromPassword: a salted one-way hash
Hash(password, salt) == <<"bcrypt", salt, password>>

\* bcrypt.CompareHashAndPassword
CompareHashAndPassword(hash, password) ==
    IF Len(hash) = 3 /\ hash[3] = password THEN Nil ELSE BcryptMismatch

\* time.Time.Unix()
Unix(t) == t \div TicksPerSec

\* jwt.SigningMethodHS256 over the serialized claims
HS256(key, claims) == <<"HS256", key, claims>>

\* NewToken with the expiry set to the issuance time (the duration forgotten)
NewToken_NoTTL(user, app, duration, t, signErr) ==
    LET claims == [uid |-> user.id, email |-> user.email,
                   exp |-> Unix(t), app_id |-> app.id]
    IN  IF signErr # Nil
        THEN <<EmptyToken, signErr>>
        ELSE <<(<<"JWT", claims, HS256(app.secret, claims)>>), Nil>>

\* NewToken that leaves the expiry claim at its zero value
NewToken_NoExp(user, app, duration, t, signErr) ==
    LET claims == [uid |-> user.id, email |-> user.email,
                   exp |-> 0, app_id |-> app.id]
    IN  IF signErr # Nil
        THEN <<EmptyToken, signErr>>
        ELSE <<(<<"JWT", claims, HS256(app.secret, claims)>>), Nil>>

\* jwt.NewToken: claims {uid, email, exp, app_id}, signed with the application's
\* secret; signErr is what token.SignedString reports
NewToken(user, app, duration, t, signErr) ==
    LET claims == [uid |-> user.id, email |-> user.email,
                   exp |-> Unix(t + duration), app_id |-> app.id]
    IN  IF signErr # Nil
        THEN <<EmptyToken, signErr>>
        ELSE <<(<<"JWT", claims, HS256(app.secret, claims)>>), Nil>>

\* --------------------------------------------- the store contracts (spec 4.4)
\* Each is the set of (value, error) outcomes the store may answer with.  A store
\* call made with a canceled context reports the cancellation; otherwise the store
\* answers from its records or fails with an unclassified error.

\* UserProvider.User
StoreUser(ctx, email) ==
    IF ctx = "canceled" THEN {<<NoUser, CtxCanceled>>}
    ELSE {<<NoUser, StorageInternal>>} \cup
         (IF \E u \in users : u.email = email
          THEN {<<u, Nil>> : u \in {x \in users : x.email = email}}
          ELSE {<<NoUser, StorageErrUserNotFound>>})

\* AppProvider.App
StoreApp(ctx, appID) ==
    IF ctx = "canceled" THEN {<<NoApp, CtxCanceled>>}
    ELSE {<<NoApp, StorageInternal>>} \cup
         (IF \E a \in KnownApps : a.id = appID
          THEN {<<a, Nil>> : a \in {x \in KnownApps : x.id = appID}}
          ELSE {<<NoApp, StorageErrAppNotFound>>})

\* UserSaver.SaveUser: uniqueness of email is enforced atomically by the store
StoreSaveUser(ctx, email) ==
    IF ctx = "canceled" THEN {<<0, CtxCanceled>>}
    ELSE {<<0, StorageInternal>>} \cup
         (IF \E u \in users : u.email = email
          THEN {<<0, StorageErrUserExists>>}
          ELSE {<<nextId, Nil>>})

\* UserProvider.IsAdmin: the is_admin flag of a stored user is set by the operator,
\* outside the service, so either value may be answered
StoreIsAdmin(ctx, userID) ==
    IF ctx = "canceled" THEN {<<FALSE, CtxCanceled>>}
    ELSE {<<FALSE, StorageInternal>>} \cup
         (IF \E u \in users : u.id = userID
          THEN {<<TRUE, Nil>>, <<FALSE, Nil>>}
          ELSE {<<FALSE, StorageErrUserNotFound>>})

\* UserProvider.IsUserExists: an absent id is answered "not found" or false
StoreIsUserExists(ctx, userID) ==
    IF ctx = "canceled" THEN {<<FALSE, CtxCanceled>>}
    ELSE {<<FALSE, StorageInternal>>} \cup
         (IF \E u \in users : u.id = userID
          THEN {<<TRUE, Nil>>}
          ELSE {<<FALSE, StorageErrUserNotFound>>, <<FALSE, Nil>>})

\* ------------------------------------------------ AuthService: error mapping
OpLogin == "Auth.Login"
OpRegister == "auth.RegisterNewUser"
OpIsAdmin == "Auth.IsAdmin"
OpIsUserExists == "Auth.IsUserExists"

\* LoginUserErr that tells the caller the email is unknown
LoginUserErr_Leak(err) ==
    IF err = Nil THEN NoErr
    ELSE IF err = StorageErrUserNotFound
         THEN Wrap(OpLogin, ErrUserNotFound)
         ELSE Wrap(OpLogin, err)

\* Login, after usrProvider.User: the error returned and the records logged
LoginUserErr(err) ==
    IF err = Nil THEN NoErr
    ELSE IF err = StorageErrUserNotFound
         THEN Wrap(OpLogin, ErrInvalidCredentials)
         ELSE Wrap(OpLogin, err)

LoginUserLog(err) ==
    IF err = Nil THEN <<>>
    ELSE IF err = StorageErrUserNotFound
         THEN <<LogRec("WARN", "user not found", TRUE)>>
         ELSE <<LogRec("ERROR", "failed to get user", TRUE)>>

\* LoginCompareErr that ignores the outcome of the comparison
LoginCompareErr_Skip(err) == NoErr

\* Login, after bcrypt.CompareHashAndPassword
LoginCompareErr(err) ==
    IF err # Nil THEN Wrap(OpLogin, ErrInvalidCredentials) ELSE NoErr

LoginCompareLog(err) ==
    IF err # Nil THEN <<LogRec("INFO", "invalid credentials", TRUE)>> ELSE <<>>

\* LoginAppErr that reports a failed application lookup as bad credentials
LoginAppErr_Remap(err) ==
    IF err # Nil THEN Wrap(OpLogin, ErrInvalidCredentials) ELSE NoErr

\* Login, after appProvider.App
LoginAppErr(err) ==
    IF err # Nil THEN Wrap(OpLogin, err) ELSE NoErr

LoginAppLog(err) ==
    IF err # Nil THEN <<>> ELSE <<LogRec("INFO", "user logged in successfully", FALSE)>>

\* Login, after jwt.NewToken
LoginTokenErr(err) ==
    IF err # Nil THEN Wrap(OpLogin, err) ELSE NoErr

LoginTokenLog(err) ==
    IF err # Nil THEN <<LogRec("ERROR", "failed to create token", TRUE)>> ELSE <<>>

\* RegisterHashErr that ignores a hashing failure
RegisterHashErr_Ignored(err) == NoErr

\* RegisterNewUser, after bcrypt.GenerateFromPassword
RegisterHashErr(err) ==
    IF err # Nil THEN Wrap(OpRegister, err) ELSE NoErr

RegisterHashLog(err) ==
    IF err # Nil
    THEN <<LogRec("ERROR", "failed ot generate password hash", TRUE)>>
    ELSE <<>>

\* RegisterSaveErr that forwards the store's "exists" error without classifying it
RegisterSaveErr_NoRemap(err) ==
    IF err = Nil THEN NoErr ELSE Wrap(OpRegister, err)

\* RegisterNewUser, after usrSaver.SaveUser
RegisterSaveErr(err) ==
    IF err = Nil THEN NoErr
    ELSE IF err = StorageErrUserExists
         THEN Wrap(OpRegister, ErrUserExists)
         ELSE Wrap(OpRegister, err)

RegisterSaveLog(err) ==
    IF err = Nil THEN <<LogRec("INFO", "user registered", FALSE)>>
    ELSE IF err = StorageErrUserExists
         THEN <<LogRec("WARN", "user not found", TRUE)>>
         ELSE <<LogRec("ERROR", "failed ot save user", TRUE)>>

\* IsAdmin, after usrProvider.IsAdmin
IsAdminErr(err) ==
    IF err = Nil THEN NoErr
    ELSE IF err = StorageErrUserNotFound
         THEN Wrap(OpIsAdmin, ErrInvalidAppID)
         ELSE Wrap(OpIsAdmin, err)

IsAdminLog(isAdmin, err) ==
    IF err = Nil THEN <<LogRec("INFO", "checked if user is admin", FALSE)>>
    ELSE IF err = StorageErrUserNotFound
         THEN <<LogRec("WARN", "user not found", TRUE)>>
         ELSE <<>>

\* IsUserExistsErr with a kind of its own for "not found"
IsUserExistsErr_UserNotFound(err) ==
    IF err = Nil THEN NoErr
    ELSE IF err = StorageErrUserNotFound
         THEN Wrap(OpIsUserExists, ErrUserNotFound)
         ELSE Wrap(OpIsUserExists, err)

\* IsUserExists, after usrProvider.IsUserExists
IsUserExistsErr(err) ==
    IF err = Nil THEN NoErr
    ELSE IF err = StorageErrUserNotFound
         THEN Wrap(OpIsUserExists, ErrInvalidAppID)
         ELSE Wrap(OpIsUserExists, err)

IsUserExistsLog(exists, err) ==
    IF err = Nil THEN <<LogRec("INFO", "checked if user exists", FALSE)>>
    ELSE IF err = StorageErrUserNotFound
         THEN <<LogRec("WARN", "user not found", TRUE)>>
         ELSE <<>>

\* ------------------------------------------------------------------ state
Init ==
    /\ req = [r \in Reqs |-> Idle]
    /\ users = {}
    /\ nextId = 1
    /\ now = 0
    /\ tokenTTL \in 1..MaxTTL
    /\ registered = {}

Free(r) == req[r].pc = "idle"
InFlight(r) == req[r].pc \notin {"idle", "done"}

\* ------------------------------------------------------------------ Login
\* the call arrives: "attempting to login user"
StartLogin(r, email, password, appID) ==
    /\ Free(r)
    /\ req' = [req EXCEPT ![r] =
                 [Idle EXCEPT !.op = "Login", !.pc = "user", !.email = email,
                              !.password = password, !.appID = appID,
                              !.log = <<LogRec("INFO", "attempting to login user", FALSE)>>]]
    /\ UNCHANGED <<users, nextId, now, tokenTTL, registered>>

\* user, err := a.usrProvider.User(ctx, email)
LoginUser(r) ==
    /\ req[r].pc = "user"
    /\ \E out \in StoreUser(req[r].ctx, req[r].email) :
         LET err == LoginUserErr(out[2]) IN
         req' = [req EXCEPT ![r] =
                   [@ EXCEPT !.user = out[1],
                             !.err = err,
                             !.pc = IF err # NoErr THEN "done" ELSE "compare",
                             !.log = @ \o LoginUserLog(out[2]),
                             !.calls = Append(@, Call("User", out[2]))]]
    /\ UNCHANGED <<users, nextId, now, tokenTTL, registered>>

\* bcrypt.CompareHashAndPassword(user.PassHash, []byte(password))
LoginCompare(r) ==
    /\ req[r].pc = "compare"
    /\ LET cmp == CompareHashAndPassword(req[r].user.passHash, req[r].password)
           err == LoginCompareErr(cmp)
       IN  req' = [req EXCEPT ![r] =
                     [@ EXCEPT !.err = err,
                               !.pc = IF err # NoErr THEN "done" ELSE "app",
                               !.log = @ \o LoginCompareLog(cmp),
                               !.calls = Append(@, Call("Compare", cmp))]]
    /\ UNCHANGED <<users, nextId, now, tokenTTL, registered>>

\* app, err := a.appProvider.App(ctx, appID)
LoginApp(r) ==
    /\ req[r].pc = "app"
    /\ \E out \in StoreApp(req[r].ctx, req[r].appID) :
         LET err == LoginAppErr(out[2]) IN
         req' = [req EXCEPT ![r] =
                   [@ EXCEPT !.app = out[1],
                             !.err = err,
                             !.pc = IF err # NoErr THEN "done" ELSE "token",
                             !.log = @ \o LoginAppLog(out[2]),
                             !.calls = Append(@, Call("App", out[2]))]]
    /\ UNCHANGED <<users, nextId, now, tokenTTL, registered>>

\* token, err := jwt.NewToken(user, app, a.tokenTTL); NewToken reads the clock
\* (time.Now()), which never runs backwards: t is the time it reads
LoginToken(r) ==
    /\ req[r].pc = "token"
    /\ \E t \in now..MaxTime, signErr \in {Nil, JwtError} :
         LET out == NewToken(req[r].user, req[r].app, tokenTTL, t, signErr)
             err == LoginTokenErr(out[2])
         IN  /\ req' = [req EXCEPT ![r] =
                          [@ EXCEPT !.token = IF err # NoErr THEN EmptyToken ELSE out[1],
                                    !.err = err,
                                    !.pc = "done",
                                    !.issuedAt = IF err # NoErr THEN 0 ELSE t,
                                    !.log = @ \o LoginTokenLog(out[2]),
                                    !.calls = Append(@, Call("NewToken", out[2]))]]
             /\ now' = t
    /\ UNCHANGED <<users, nextId, tokenTTL, registered>>

\* -------------------------------------------------------- RegisterNewUser
\* the call arrives: "registering new user"
StartRegister(r, email, password) ==
    /\ Free(r)
    /\ req' = [req EXCEPT ![r] =
                 [Idle EXCEPT !.op = "RegisterNewUser", !.pc = "hash", !.email = email,
                              !.password = password,
                              !.log = <<LogRec("INFO", "registering new user", FALSE)>>]]
    /\ UNCHANGED <<users, nextId, now, tokenTTL, registered>>

\* passHash, err := bcrypt.GenerateFromPassword([]byte(pass), bcrypt.DefaultCost)
RegisterHash(r) ==
    /\ req[r].pc = "hash"
    /\ \E salt \in Salts, hashErr \in {Nil, BcryptError} :
         LET err == RegisterHashErr(hashErr) IN
         req' = [req EXCEPT ![r] =
                   [@ EXCEPT !.passHash = IF hashErr = Nil
                                          THEN Hash(req[r].password, salt) ELSE <<>>,
                             !.err = err,
                             !.pc = IF err # NoErr THEN "done" ELSE "save",
                             !.log = @ \o RegisterHashLog(hashErr),
                             !.calls = Append(@, Call("Hash", hashErr))]]
    /\ UNCHANGED <<users, nextId, now, tokenTTL, registered>>

\* id, err := a.usrSaver.SaveUser(ctx, email, passHash)
RegisterSave(r) ==
    /\ req[r].pc = "save"
    /\ \E out \in StoreSaveUser(req[r].ctx, req[r].email) :
         LET err == RegisterSaveErr(out[2]) IN
         /\ req' = [req EXCEPT ![r] =
                      [@ EXCEPT !.uid = IF err # NoErr THEN 0 ELSE out[1],
                                !.err = err,
                                !.pc = "done",
                                !.log = @ \o RegisterSaveLog(out[2]),
                                !.calls = Append(@, Call("SaveUser", out[2]))]]
         /\ IF out[2] = Nil
            THEN /\ users' = users \cup {[id |-> out[1], email |-> req[r].email,
                                          passHash |-> req[r].passHash]}
                 /\ nextId' = nextId + 1
            ELSE UNCHANGED <<users, nextId>>
         /\ registered' = IF err = NoErr
                          THEN registered \cup {[email |-> req[r].email,
                                                 password |-> req[r].password,
                                                 id |-> out[1]]}
                          ELSE registered
    /\ UNCHANGED <<now, tokenTTL>>

\* ----------------------------------------------------- IsAdmin, IsUserExists
StartIsAdmin(r, userID) ==
    /\ Free(r)
    /\ req' = [req EXCEPT ![r] =
                 [Idle EXCEPT !.op = "IsAdmin", !.pc = "isAdmin", !.userID = userID,
                              !.log = <<LogRec("INFO", "checking if user is admin", FALSE)>>]]
    /\ UNCHANGED <<users, nextId, now, tokenTTL, registered>>

\* isAdmin, err := a.usrProvider.IsAdmin(ctx, userID)
IsAdmin(r) ==
    /\ req[r].pc = "isAdmin"
    /\ \E out \in StoreIsAdmin(req[r].ctx, req[r].userID) :
         LET err == IsAdminErr(out[2]) IN
         req' = [req EXCEPT ![r] =
                   [@ EXCEPT !.flag = IF err # NoErr THEN FALSE ELSE out[1],
                             !.storeFlag = out[1],
                             !.err = err,
                             !.pc = "done",
                             !.log = @ \o IsAdminLog(out[1], out[2]),
                             !.calls = Append(@, Call("IsAdmin", out[2]))]]
    /\ UNCHANGED <<users, nextId, now, tokenTTL, registered>>

StartIsUserExists(r, userID) ==
    /\ Free(r)
    /\ req' = [req EXCEPT ![r] =
                 [Idle EXCEPT !.op = "IsUserExists", !.pc = "isUserExists",
                              !.userID = userID,
                              !.log = <<LogRec("INFO", "checking if user exists", FALSE)>>]]
    /\ UNCHANGED <<users, nextId, now, tokenTTL, registered>>

\* isUserExists, err := a.usrProvider.IsUserExists(ctx, userID)
IsUserExists(r) ==
    /\ req[r].pc = "isUserExists"
    /\ \E out \in StoreIsUserExists(req[r].ctx, req[r].userID) :
         LET err == IsUserExistsErr(out[2]) IN
         req' = [req EXCEPT ![r] =
                   [@ EXCEPT !.flag = IF err # NoErr THEN FALSE ELSE out[1],
                             !.storeFlag = out[1],
                             !.err = err,
                             !.pc = "done",
                             !.log = @ \o IsUserExistsLog(out[1], out[2]),
                             !.calls = Append(@, Call("IsUserExists", out[2]))]]
    /\ UNCHANGED <<users, nextId, now, tokenTTL, registered>>

\* ------------------------------------------------------------ environment
\* the caller has taken the result: the slot serves the next call
Return(r) ==
    /\ req[r].pc = "done"
    /\ req' = [req EXCEPT ![r] = Idle]
    /\ UNCHANGED <<users, nextId, now, tokenTTL, registered>>

\* the inbound request's context is canceled (or its deadline expires) mid-call
Cancel(r) ==
    /\ InFlight(r)
    /\ req[r].ctx = "live"
    /\ req' = [req EXCEPT ![r].ctx = "canceled"]
    /\ UNCHANGED <<users, nextId, now, tokenTTL, registered>>

Next ==
    \/ \E r \in Reqs, e \in Emails, p \in Passwords, a \in AppIDs : StartLogin(r, e, p, a)
    \/ \E r \in Reqs : LoginUser(r)
    \/ \E r \in Reqs : LoginCompare(r)
    \/ \E r \in Reqs : LoginApp(r)
    \/ \E r \in Reqs : LoginToken(r)
    \/ \E r \in Reqs, e \in Emails, p \in Passwords : StartRegister(r, e, p)
    \/ \E r \in Reqs : RegisterHash(r)
    \/ \E r \in Reqs : RegisterSave(r)
    \/ \E r \in Reqs, u \in UserIDs : StartIsAdmin(r, u)
    \/ \E r \in Reqs : IsAdmin(r)
    \/ \E r \in Reqs, u \in UserIDs : StartIsUserExists(r, u)
    \/ \E r \in Reqs : IsUserExists(r)
    \/ \E r \in Reqs : Cancel(r)
    \/ \E r \in Reqs : Return(r)

Spec == Init /\ [][Next]_vars

\* ------------------------------------------------- reading a finished call
Done(r, op) == req[r].pc = "done" /\ req[r].op = op

\* the call in slot r made library/store call fn, which answered err
Answered(r, fn, err) ==
    \E i \in 1..Len(req[r].calls) : req[r].calls[i] = Call(fn, err)

\* some store or library call of slot r failed for a reason of the environment
Faulted(r) ==
    \E i \in 1..Len(req[r].calls) :
        req[r].calls[i].err \in {StorageInternal, CtxCanceled, JwtError, BcryptError}

\* the call in slot r emitted a log record describing a failure
LoggedFailure(r) ==
    \E i \in 1..Len(req[r].log) : req[r].log[i].error

InvalidCredentials == Wrap(OpLogin, ErrInvalidCredentials)

\* the token the spec describes for user (id, email) and application a issued at t
ExpectedToken(id, email, a, t) ==
    LET claims == [uid |-> id, email |-> email, exp |-> Unix(t + tokenTTL),
                   app_id |-> a.id]
    IN  <<"JWT", claims, <<"HS256", a.secret, claims>> >>

\* ------------------------------------------------------------------ claims

\* C1: a Login with a registered (email, password) pair and an application id the
\* Application Store resolves, whose store and library calls all answered, succeeds
\* with the token whose claims are exactly uid = the id assigned at registration,
\* email, app_id = the resolved application's id and exp = Unix(issuance + tokenTTL),
\* tokenTTL being the value the service was constructed with, signed with that
\* application's secret and with no other application's.
C1_LoginIssuesExactToken ==
    \A r \in Reqs :
        (Done(r, "Login") /\ ~Faulted(r) /\ Answered(r, "User", Nil)) =>
            \A reg \in registered, a \in KnownApps :
                (reg.email = req[r].email /\ reg.password = req[r].password
                    /\ a.id = req[r].appID) =>
                    /\ req[r].err = NoErr
                    /\ req[r].token = ExpectedToken(reg.id, reg.email, a, req[r].issuedAt)
                    /\ \A b \in KnownApps :
                           b.secret # a.secret => req[r].token[3][2] # b.secret

C1_Witness ==
    \E r \in Reqs, reg \in registered :
        /\ Done(r, "Login") /\ req[r].err = NoErr
        /\ reg.email = req[r].email /\ reg.password = req[r].password
        /\ req[r].appID = 2 /\ req[r].issuedAt = 1 /\ reg.id = 2
        /\ req[r].token # EmptyToken

\* C2: a Login whose email the User Store does not know, and a Login whose email is
\* registered with another password, both end with the error InvalidCredentials and
\* the empty token, whatever the application id.
C2_SameInvalidCredentials ==
    \A r \in Reqs :
        (Done(r, "Login") /\
            (\/ Answered(r, "User", StorageErrUserNotFound)
             \/ (Answered(r, "User", Nil) /\
                   \E reg \in registered :
                       reg.email = req[r].email /\ reg.password # req[r].password))) =>
            /\ req[r].err = InvalidCredentials
            /\ req[r].token = EmptyToken

C2_Witness ==
    \E r1 \in Reqs, r2 \in Reqs :
        /\ Done(r1, "Login") /\ Answered(r1, "User", StorageErrUserNotFound)
        /\ Done(r2, "Login") /\ Answered(r2, "User", Nil)
        /\ \E reg \in registered :
               reg.email = req[r2].email /\ reg.password # req[r2].password
        /\ req[r1].appID = 3 /\ req[r2].appID = 1
        /\ req[r1].err = req[r2].err /\ req[r1].token = req[r2].token

\* C3: the store never holds two records with one email; of the RegisterNewUser
\* calls for one email whose hashing and store call answered, issued in sequence or
\* interleaved, exactly one has succeeded, it returned the id of the record created,
\* and every other one failed with UserExists and the zero id.
C3_OneRegistrationPerEmail ==
    /\ \A u1 \in users, u2 \in users : u1.email = u2.email => u1 = u2
    /\ \A g1 \in registered, g2 \in registered : g1.email = g2.email => g1 = g2
    /\ \A r \in Reqs :
           (Done(r, "RegisterNewUser") /\ ~Faulted(r)) =>
               /\ \E reg \in registered : reg.email = req[r].email
               /\ \/ /\ req[r].err = NoErr
                     /\ req[r].uid >= 1
                     /\ \E u \in users : u.id = req[r].uid /\ u.email = req[r].email
                  \/ /\ req[r].err = Wrap(OpRegister, ErrUserExists)
                     /\ req[r].uid = 0
    /\ \A r1 \in Reqs, r2 \in Reqs :
           (r1 # r2 /\ Done(r1, "RegisterNewUser") /\ Done(r2, "RegisterNewUser")
               /\ req[r1].email = req[r2].email) =>
               ~(req[r1].err = NoErr /\ req[r2].err = NoErr)

C3_Witness ==
    \E r1 \in Reqs, r2 \in Reqs :
        /\ Done(r1, "RegisterNewUser") /\ Done(r2, "RegisterNewUser")
        /\ req[r1].email = req[r2].email
        /\ req[r1].err = NoErr /\ req[r1].uid = 1
        /\ req[r2].err = Wrap(OpRegister, ErrUserExists)
        /\ req[r2].password # req[r1].password

C5_CanceledCallFails ==
    \A r \in Reqs :
        (req[r].pc = "done" /\ req[r].ctx = "canceled") => req[r].err # NoErr

C7_TokensAlwaysDistinct ==
    \A r1 \in Reqs, r2 \in Reqs :
        (r1 # r2 /\ Done(r1, "Login") /\ Done(r2, "Login")
            /\ req[r1].err = NoErr /\ req[r2].err = NoErr) =>
            req[r1].token # req[r2].token

\* C7 (amended): two successful Login calls return different tokens whenever they
\* are for different users, for different applications, or their expiry instants
\* (whole Unix seconds) differ; two calls for the same user and application whose
\* expiry falls in the same second return the same token.
C7_TokensDistinctUnlessSameSecond ==
    \A r1 \in Reqs, r2 \in Reqs :
        (r1 # r2 /\ Done(r1, "Login") /\ Done(r2, "Login")
            /\ req[r1].err = NoErr /\ req[r2].err = NoErr) =>
            (req[r1].token = req[r2].token <=>
                /\ req[r1].email = req[r2].email
                /\ req[r1].appID = req[r2].appID
                /\ Unix(req[r1].issuedAt + tokenTTL) = Unix(req[r2].issuedAt + tokenTTL))

C7_Witness ==
    \E r1 \in Reqs, r2 \in Reqs :
        /\ r1 # r2 /\ Done(r1, "Login") /\ Done(r2, "Login")
        /\ req[r1].err = NoErr /\ req[r2].err = NoErr
        /\ req[r1].email = req[r2].email /\ req[r1].appID = req[r2].appID
        /\ req[r1].issuedAt # req[r2].issuedAt
        /\ req[r1].token # req[r2].token

\* the credentials of the Login in slot r are those of a registered user
ValidCredentials(r) ==
    \E reg \in registered :
        reg.email = req[r].email /\ reg.password = req[r].password

\* a finished Login against an application id the Application Store does not know,
\* whose calls all answered and whose email lookup was not overtaken by a registration
UnknownAppLogin(r) ==
    /\ Done(r, "Login") /\ ~Faulted(r)
    /\ req[r].appID \notin {a.id : a \in KnownApps}
    /\ (Answered(r, "User", StorageErrUserNotFound) =>
            \A reg \in registered : reg.email # req[r].email)

\* C8 (as claimed): for one unknown application id, the caller observes the same
\* result whether the credentials are valid or not.
C8_UnknownAppHidesCredentials ==
    \A r1 \in Reqs, r2 \in Reqs :
        (UnknownAppLogin(r1) /\ UnknownAppLogin(r2)
            /\ req[r1].appID = req[r2].appID) =>
            (req[r1].err = req[r2].err /\ req[r1].token = req[r2].token)

\* C8 (amended): in Login the password is verified before the application is looked
\* up (the Application Store is called only after a successful comparison), and so
\* a Login against an unknown application id does tell valid credentials from
\* invalid ones: invalid credentials end with InvalidCredentials, valid ones with
\* the Application Store's wrapped "not found" error.
C8_CredentialsCheckedFirst ==
    \A r \in Reqs :
        /\ req[r].op = "Login" =>
               \A i \in 1..Len(req[r].calls) :
                   req[r].calls[i].fn = "App" =>
                       /\ i = 3
                       /\ req[r].calls[1] = Call("User", Nil)
                       /\ req[r].calls[2] = Call("Compare", Nil)
        /\ UnknownAppLogin(r) =>
               /\ ValidCredentials(r) =>
                      req[r].err = Wrap(OpLogin, StorageErrAppNotFound)
               /\ ~ValidCredentials(r) => req[r].err = InvalidCredentials
               /\ req[r].token = EmptyToken

C8_Witness ==
    \E r1 \in Reqs, r2 \in Reqs :
        /\ UnknownAppLogin(r1) /\ UnknownAppLogin(r2)
        /\ ValidCredentials(r1) /\ ~ValidCredentials(r2)
        /\ req[r1].email = req[r2].email
        /\ req[r1].err # req[r2].err

\* C9 (as claimed): every call that ends with an error has emitted a log record for
\* that failure.
C9_EveryFailureLogged ==
    \A r \in Reqs :
        (req[r].pc = "done" /\ req[r].err # NoErr) => LoggedFailure(r)

\* C10: the user records change only in the SaveUser step of a RegisterNewUser call
\* that then returns success, and then by exactly one new record (a new id, an email
\* not stored before); no step removes or alters a record; a call that ends with an
\* error ends without a change; a RegisterNewUser whose hashing failed never calls
\* SaveUser.
C10_OnlyRegisterAddsUsers ==
    [][ /\ users \subseteq users'
        /\ users' # users =>
               \E r \in Reqs :
                   /\ req[r].op = "RegisterNewUser" /\ req[r].pc = "save"
                   /\ req'[r].pc = "done" /\ req'[r].err = NoErr
                   /\ \A u \in users : u.id # req'[r].uid /\ u.email # req[r].email
                   /\ users' = users \cup {[id |-> req'[r].uid, email |-> req[r].email,
                                            passHash |-> req[r].passHash]}
        /\ \A r \in Reqs :
               (req[r].pc # "done" /\ req'[r].pc = "done" /\ req'[r].err # NoErr) =>
                   users' = users
        /\ \A r \in Reqs :
               Answered(r, "Hash", BcryptError)' => ~Answered(r, "SaveUser", Nil)'
      ]_vars

C10_Witness ==
    \E r1 \in Reqs, r2 \in Reqs :
        /\ Done(r1, "RegisterNewUser") /\ req[r1].err = NoErr
        /\ Done(r2, "RegisterNewUser") /\ Answered(r2, "Hash", BcryptError)
        /\ Cardinality(users) = 2

====
